---- MODULE Spec2Model ----
(***************************************************************************)
(* A model of pyctr's SRL container reader (src/pyctr/type/srl.py) and of  *)
(* the helpers of src/pyctr/util.py it relies on.                          *)
(*                                                                         *)
(* Python strings are modelled as sequences of one-character strings, so   *)
(* that slicing, suffix tests and case folding are computed character by   *)
(* character.  Python values whose type matters for a comparison are       *)
(* tagged records [type, val].                                             *)
(***************************************************************************)
EXTENDS Integers, Sequences, FiniteSets, TLC

VARIABLES
    normPc,      \* position of the normalization driver: "start", "once", "twice"
    normIn,      \* the path handed to _normalize_path
    normOut,     \* _normalize_path(normIn)
    normAgain,   \* _normalize_path(normOut)
    decPc,       \* position of the decompose driver: "start", "done"
    decFlag,     \* the flag class: the values of its members, [map, iter]
    decValue,    \* the integer handed to decompose
    decResult,   \* what decompose produced (a return value or an exception)
    iconPc,      \* position of the icon driver: "start", "loaded", "asked"
    iconFile,    \* the file object handed to SRLIcon.load: [size, records]
    icon,        \* what SRLIcon.load produced (an SRLIcon or an exception)
    titleOrder,  \* the language argument of the last get_app_title call
    titleResult, \* what that get_app_title call returned
    stream,      \* the container file: its size and the fields the reader uses
    filePos,     \* the cursor of the reader's file object, self._file
    entries,     \* self.entries: path -> [offset, size]
    readerPc,    \* how far SRLReader.__init__ has got
    reader,      \* the attributes of the SRLReader
    lock,        \* the holder of self._lock, the container's lock, or "free"
    viewLock,    \* the holder of the lock the views serialise on, or "free"
    iconCaught,  \* the exception _load_icon caught, or "none"
    thr,         \* per thread: its position and the view it holds
    access       \* the last operation on self._file: who did it, and who
                 \* held the container's lock then

normVars == <<normPc, normIn, normOut, normAgain>>
decVars == <<decPc, decFlag, decValue, decResult>>
iconVars == <<iconPc, iconFile, icon, titleOrder, titleResult>>
readerVars == <<stream, filePos, entries, readerPc, reader, lock, viewLock,
                iconCaught, thr, access>>
vars == <<normVars, decVars, iconVars, readerVars>>

-----------------------------------------------------------------------------
(* Bounds of the model.                                                    *)

MaxPathLen == 6
FlagBits == 3
MaxMembers == 3
MaxTitleChars == 5

-----------------------------------------------------------------------------
(* Python helpers.                                                         *)

Min(a, b) == IF a <= b THEN a ELSE b
Max(a, b) == IF a >= b THEN a ELSE b

\* str.lower() on one character.
LowerChar(c) ==
    CASE c = "B" -> "b"
      [] c = "I" -> "i"
      [] c = "N" -> "n"
      [] OTHER -> c

\* str.lower()
Lower(s) == [i \in 1..Len(s) |-> LowerChar(s[i])]

\* str.startswith(prefix)
StartsWith(s, prefix) ==
    /\ Len(s) >= Len(prefix)
    /\ SubSeq(s, 1, Len(prefix)) = prefix

\* str.endswith(suffix)
EndsWith(s, suffix) ==
    /\ Len(s) >= Len(suffix)
    /\ SubSeq(s, Len(s) - Len(suffix) + 1, Len(s)) = suffix

\* s[k:] for k >= 0
SliceFrom(s, k) == SubSeq(s, Min(k, Len(s)) + 1, Len(s))

\* s[:k] for k >= 0
SliceTo(s, k) == SubSeq(s, 1, Min(k, Len(s)))

Sep == <<"/">>
DotBin == <<".", "b", "i", "n">>

-----------------------------------------------------------------------------
(* _normalize_path, srl.py lines 51-61.                                    *)

\* A variant that strips the first character whenever the path contains a
\* separator anywhere, instead of only when it starts with one.
NormalizeStripAnywhere(p) ==
    LET q == IF \E i \in 1..Len(p) : p[i] = "/" THEN SliceFrom(p, 1) ELSE p
    IN  IF EndsWith(Lower(q), DotBin) THEN SliceTo(q, 4) ELSE q

_normalize_path(p) ==
    LET q == IF StartsWith(p, Sep) THEN SliceFrom(p, 1) ELSE p
    IN  IF EndsWith(Lower(q), DotBin) THEN SliceTo(q, 4) ELSE q

PathChars == {"/", ".", "b", "i", "n", "N"}
Paths == UNION {[1..n -> PathChars] : n \in 0..MaxPathLen}

NormInit ==
    /\ normPc = "start"
    /\ normIn \in Paths
    /\ normOut = <<>>
    /\ normAgain = <<>>

NormIdle ==
    /\ normPc = "idle"
    /\ normIn = <<>>
    /\ normOut = <<>>
    /\ normAgain = <<>>

\* path = _normalize_path(path), as SRLReader.open does at line 133.
Normalize ==
    /\ normPc = "start"
    /\ normOut' = _normalize_path(normIn)
    /\ normPc' = "once"
    /\ UNCHANGED <<normIn, normAgain, decVars, iconVars, readerVars>>

\* The result is normalized a second time (a caller re-opening by the
\* normalized name).
NormalizeAgain ==
    /\ normPc = "once"
    /\ normAgain' = _normalize_path(normOut)
    /\ normPc' = "twice"
    /\ UNCHANGED <<normIn, normOut, decVars, iconVars, readerVars>>

-----------------------------------------------------------------------------
(* decompose, util.py lines 35-60.                                         *)

RECURSIVE BitAnd(_, _)
\* a & b for non-negative a, b
BitAnd(a, b) ==
    IF a = 0 \/ b = 0 THEN 0
    ELSE (a % 2) * (b % 2) + 2 * BitAnd(a \div 2, b \div 2)

RECURSIVE BitOr(_, _)
\* a | b for non-negative a, b
BitOr(a, b) ==
    IF a = 0 THEN b
    ELSE IF b = 0 THEN a
    ELSE Max(a % 2, b % 2) + 2 * BitOr(a \div 2, b \div 2)

\* a & ~b for non-negative a, b
BitAndNot(a, b) == a - BitAnd(a, b)

RECURSIVE OrAll(_)
\* the bitwise OR of a set of non-negative integers
OrAll(S) ==
    IF S = {} THEN 0
    ELSE LET x == CHOOSE y \in S : TRUE IN BitOr(x, OrAll(S \ {x}))

RECURSIVE SortDesc(_)
\* members.sort(key=lambda m: m._value_, reverse=True), members given as the
\* set of their (distinct) values
SortDesc(S) ==
    IF S = {} THEN <<>>
    ELSE LET m == CHOOSE x \in S : \A y \in S : y <= x
         IN  <<m>> \o SortDesc(S \ {m})

\* The set of a sequence's elements.
Range(s) == {s[i] : i \in 1..Len(s)}

\* util.py never defines or imports _high_bit (lines 7-15 are its imports):
\* evaluating line 49 raises NameError.
HighBitIsDefined == FALSE

Returned(members, not_covered) ==
    [raised |-> "none", members |-> members, not_covered |-> not_covered]
Raised(exc) ==
    [raised |-> exc, members |-> <<>>, not_covered |-> 0]

\* The flag argument is an enumeration class: flag.iter are the values of the
\* members that iterating the class yields, flag.map are the keys of its
\* _value2member_map_.
decompose(flag, value) ==
    LET negative == value < 0
        \* lines 41-45: every non-zero member wholly contained in value
        matched == {m \in flag.iter : m # 0 /\ BitAnd(m, value) = m}
        not_covered == BitAndNot(value, OrAll(matched))
        \* lines 54-55
        withValue == IF matched = {} /\ value \in flag.map THEN {value} ELSE matched
        sorted == SortDesc(withValue)
        \* lines 57-59
        popped == IF Len(sorted) > 1 /\ sorted[1] = value THEN Tail(sorted) ELSE sorted
    IN  \* lines 46-53: the loop body starts with _high_bit(tmp)
        IF ~negative /\ not_covered # 0 /\ ~HighBitIsDefined
        THEN Raised("NameError")
        ELSE Returned(popped, not_covered)

FlagValues == 0..(2^FlagBits - 1)
FlagTables == {T \in SUBSET FlagValues : Cardinality(T) <= MaxMembers}

\* The single-bit values of a table: what iterating an enum.Flag class yields
\* since Python 3.11.
Canonical(T) == {m \in T : m # 0 /\ BitAnd(m, m - 1) = 0}

\* Enumeration classes over a table: one that iterates every member (an
\* Enum, or a Flag before Python 3.11) and one that iterates the single-bit
\* members only.
FlagClasses ==
    UNION {{[map |-> T, iter |-> I] : I \in {T, Canonical(T)}} : T \in FlagTables}

DecInit ==
    /\ decPc = "start"
    /\ decFlag \in FlagClasses
    /\ decValue \in FlagValues
    /\ decResult = Raised("pending")

DecIdle ==
    /\ decPc = "idle"
    /\ decFlag = [map |-> {}, iter |-> {}]
    /\ decValue = 0
    /\ decResult = Raised("pending")

Decompose ==
    /\ decPc = "start"
    /\ decResult' = decompose(decFlag, decValue)
    /\ decPc' = "done"
    /\ UNCHANGED <<decFlag, decValue, normVars, iconVars, readerVars>>

-----------------------------------------------------------------------------
(* SRLIcon, srl.py lines 144-235.                                          *)

region_names == <<"Japanese", "English", "French", "German", "Italian",
                  "Spanish", "Simplified Chinese", "Korean", "Dutch",
                  "Portuguese", "Russian", "Traditional Chinese">>

_region_order_check == <<"English", "Japanese", "French", "German", "Italian",
                         "Spanish", "Simplified Chinese", "Korean", "Dutch",
                         "Portuguese", "Russian", "Traditional Chinese">>

RegionSet == Range(region_names)

SRLICON_SIZE == 9216
\* srlicon[0x240:0x0A40]
TitleSliceStart == 576
TitleSliceEnd == 2624
\* range(0, 0x800, 0x100) and app_structs[x : x + 0x100]
TitleRangeStop == 2048
TitleRecordSize == 256

\* Characters of a title record.  NUL is U+0000, NL and CR are line breaks,
\* LoneSurrogate is a code unit 0xD800 not followed by a low surrogate,
\* which the utf-16le codec rejects.
NUL == "NUL"
NL == "\n"
CR == "\r"
LoneSurrogate == "U+D800"
Space == " "

None == [type |-> "None"]
AppTitle(short_desc, long_desc, publisher) ==
    [type |-> "AppTitle", short_desc |-> short_desc, long_desc |-> long_desc,
     publisher |-> publisher]

\* The tuple a value is, for len() and truth testing.
AsTuple(v) == IF v.type = "AppTitle"
              THEN <<v.short_desc, v.long_desc, v.publisher>>
              ELSE <<>>

\* Python's truth value of None or of a (named) tuple.
Truthy(v) == v.type # "None" /\ Len(AsTuple(v)) # 0

\* str.strip("\0"): what lies between the first and the last character
\* that is not NUL.
StripNul(s) ==
    LET keep == {i \in 1..Len(s) : s[i] # NUL}
    IN  IF keep = {} THEN <<>>
        ELSE SubSeq(s, CHOOSE i \in keep : \A j \in keep : i <= j,
                       CHOOSE i \in keep : \A j \in keep : i >= j)

IsLineBreak(c) == c \in {NL, CR}

RECURSIVE SplitLines(_)
\* str.splitlines(): a line ends at a line break (CR NL counting as one) or
\* at the end of the string; no empty last line is produced.
SplitLines(s) ==
    IF s = <<>> THEN <<>>
    ELSE IF \A i \in 1..Len(s) : ~IsLineBreak(s[i]) THEN <<s>>
    ELSE LET i == CHOOSE j \in 1..Len(s) :
                    /\ IsLineBreak(s[j])
                    /\ \A h \in 1..(j - 1) : ~IsLineBreak(s[h])
             brk == IF s[i] = CR /\ i < Len(s) /\ s[i + 1] = NL THEN 2 ELSE 1
         IN  <<SubSeq(s, 1, i - 1)>> \o SplitLines(SliceFrom(s, i - 1 + brk))

\* bytes.decode("utf-16le") of the first nbytes bytes of a record whose text
\* is `text`, the rest of the record being NUL code units.
DecodeRaises(text, nbytes) ==
    \/ nbytes % 2 = 1
    \/ \E i \in 1..Min(Len(text), nbytes \div 2) : text[i] = LoneSurrogate

Decoded(text, nbytes) ==
    LET nchars == nbytes \div 2
    IN  [i \in 1..nchars |-> IF i <= Len(text) THEN text[i] ELSE NUL]

\* Lines 204-215 with the else branch giving the first line three times.
AppTitleElseFirstLine(title_string) ==
    IF Len(title_string) = 3
    THEN AppTitle(title_string[1],
                  title_string[1] \o <<Space>> \o title_string[2],
                  title_string[3])
    ELSE IF Len(title_string) = 2
    THEN AppTitle(title_string[1], title_string[1], title_string[2])
    ELSE IF Len(title_string) >= 1
    THEN AppTitle(title_string[1], title_string[1], title_string[1])
    ELSE AppTitle(<<>>, <<>>, <<>>)

\* Lines 204-215: the AppTitle of a record's lines.
AppTitleOfLines(title_string) ==
    IF Len(title_string) = 3
    THEN AppTitle(title_string[1],
                  title_string[1] \o <<Space>> \o title_string[2],
                  title_string[3])
    ELSE IF Len(title_string) = 2
    THEN AppTitle(title_string[1], title_string[1], title_string[2])
    ELSE AppTitle(<<>>, <<>>, <<>>)

\* len(app_structs), app_structs = srlicon[0x240:0x0A40], line 195
AppStructsLen(srliconLen) ==
    Max(0, Min(srliconLen, TitleSliceEnd) - TitleSliceStart)

\* The values x of range(0, 0x800, 0x100), line 199
ChunkOffsets ==
    [k \in 1..((TitleRangeStop + TitleRecordSize - 1) \div TitleRecordSize)
        |-> (k - 1) * TitleRecordSize]

\* len(app_structs[x : x + 0x100])
ChunkLen(srliconLen, x) ==
    Max(0, Min(AppStructsLen(srliconLen), x + TitleRecordSize) - x)

\* The record of the icon block that starts at byte offset `at` of the block.
RecordAt(records, at) == records[(at - TitleSliceStart) \div TitleRecordSize]

\* SRLIcon.__init__, lines 159-171
SRLIcon(names, region_lock_allowed) ==
    [raised |-> "none",
     names |-> [n \in RegionSet |-> IF n \in DOMAIN names THEN names[n] ELSE None],
     regionlocks |-> region_lock_allowed]

IconRaised(exc) ==
    [raised |-> exc, names |-> [n \in RegionSet |-> None], regionlocks |-> ""]

\* SRLIcon.load, lines 190-230.  f is the file object: f.size bytes, whose
\* title records are f.records.  Line 227 overwrites the region string
\* computed by lines 216-226 with "".
SRLIcon_load(f) ==
    LET srliconLen == Min(SRLICON_SIZE, f.size)
        \* zip(chunks, region_names), lines 198-200
        pairs == 1..Min(Len(ChunkOffsets), Len(region_names))
        len(k) == ChunkLen(srliconLen, ChunkOffsets[k])
        text(k) == RecordAt(f.records, TitleSliceStart + ChunkOffsets[k])
        title_string(k) == SplitLines(StripNul(Decoded(text(k), len(k))))
    IN  IF \E k \in pairs : DecodeRaises(text(k), len(k))
        THEN IconRaised("UnicodeDecodeError")
        ELSE SRLIcon([n \in {region_names[k] : k \in pairs} |->
                        LET k == CHOOSE j \in pairs : region_names[j] = n
                        IN  AppTitleOfLines(title_string(k))],
                     "")

RECURSIVE FirstTruthy(_, _)
\* The loop of lines 182-185 over the remaining languages.
FirstTruthy(names, language) ==
    IF language = <<>> THEN None
    ELSE IF Truthy(names[Head(language)]) THEN names[Head(language)]
    ELSE FirstTruthy(names, Tail(language))

Unknown == <<"u", "n", "k", "n", "o", "w", "n">>

\* SRLIcon.get_app_title, lines 176-188, for a tuple of region names.
get_app_title(self, language) ==
    LET found == FirstTruthy(self.names, language)
    IN  IF found # None THEN found ELSE AppTitle(Unknown, Unknown, Unknown)

\* The record slots of an icon block: slot i is the 0x100 bytes at
\* 0x240 + i * 0x100 (sixteen slots are reserved for titles).
Slots == 0..15

TitleChars == {"A", "B", NL, NUL}
RecordTexts ==
    UNION {[1..n -> TitleChars] : n \in 0..MaxTitleChars} \cup {<<"A", LoneSurrogate>>}

\* Well-formed records: two lines, and three lines.
TwoLineTitle == <<"A", NL, "B">>
ThreeLineTitle == <<"A", NL, "B", NL, "A">>
Filler(i) == IF i % 2 = 0 THEN TwoLineTitle ELSE ThreeLineTitle

\* The slots that hold the varying record; the others hold a filler.
SlotPatterns == {{1}, {0, 1}, {8}, Slots}

IconRecords ==
    {[i \in Slots |-> IF i \in P THEN t ELSE Filler(i)] :
        t \in RecordTexts, P \in SlotPatterns}

\* File sizes: a file longer than a block, and files cut inside the first
\* and the second record (at an even and at an odd offset).
IconFileSizes ==
    {SRLICON_SIZE + 1, TitleSliceStart + 4, TitleSliceStart + TitleRecordSize + 3}

TitleOrders ==
    {_region_order_check, region_names, <<"English">>, <<"Dutch">>,
     <<"Dutch", "Japanese", "English">>}

IconInit ==
    /\ iconPc = "start"
    /\ iconFile \in [size : IconFileSizes, records : IconRecords]
    /\ icon = IconRaised("pending")
    /\ titleOrder = <<>>
    /\ titleResult = None

IconIdle ==
    /\ iconPc = "idle"
    /\ iconFile = [size |-> 0, records |-> [i \in Slots |-> <<>>]]
    /\ icon = IconRaised("pending")
    /\ titleOrder = <<>>
    /\ titleResult = None

\* SRLIcon.load(fp) / SRLIcon.from_file(fn)
Load ==
    /\ iconPc = "start"
    /\ icon' = SRLIcon_load(iconFile)
    /\ iconPc' = "loaded"
    /\ UNCHANGED <<iconFile, titleOrder, titleResult, normVars, decVars, readerVars>>

\* icon.get_app_title(language) on a loaded icon
GetAppTitle ==
    /\ iconPc = "loaded"
    /\ icon.raised = "none"
    /\ \E language \in TitleOrders :
        /\ titleOrder' = language
        /\ titleResult' = get_app_title(icon, language)
    /\ iconPc' = "asked"
    /\ UNCHANGED <<iconFile, icon, normVars, decVars, readerVars>>

-----------------------------------------------------------------------------
(* readle / readbe, util.py lines 21-28, on a field of the container of    *)
(* which only the first `have` bytes could be read.                        *)

\* int.from_bytes(b, 'little') of the first `have` bytes of a field of
\* `width` bytes
readle(field, width, have) ==
    IF have >= width THEN field ELSE field % (256 ^ have)

\* int.from_bytes(b, 'big') of a field of one byte
readbe(field, have) == IF have = 0 THEN 0 ELSE field

\* How many bytes of [from, to) a read that returned n bytes from offset 0 holds.
Have(n, from, to) == Max(0, Min(n, to) - from)

-----------------------------------------------------------------------------
(* Python values whose type decides a comparison.                          *)

PyInt(n) == [type |-> "int", val |-> n]
PyStr(s) == [type |-> "str", val |-> s]

\* a == b: values of different types are unequal
PyEq(a, b) == a.type = b.type /\ a.val = b.val

Digit(d) ==
    CASE d = 0 -> "0" [] d = 1 -> "1" [] d = 2 -> "2" [] d = 3 -> "3"
      [] d = 4 -> "4" [] d = 5 -> "5" [] d = 6 -> "6" [] d = 7 -> "7"
      [] d = 8 -> "8" [] d = 9 -> "9"

RECURSIVE IntToStr(_)
\* str(n) for n >= 0
IntToStr(n) == IF n < 10 THEN Digit(n) ELSE IntToStr(n \div 10) \o Digit(n % 10)

-----------------------------------------------------------------------------
(* SubsectionIO (pyctr/fileio.py) and _SRLFSOpenFile's base class           *)
(* (pyctr/common.py) are not among the sources; the view below follows the  *)
(* specification's SubsectionView.                                          *)

SubsectionIO(base, length) ==
    [kind |-> "subsection", base |-> base, length |-> length, pos |-> 0]

\* How many bytes view.read(n) transfers: clipped to the window, then to
\* the end of the parent stream.
ViewReadLen(view, n, size) ==
    Max(0, Min(Min(n, view.length - view.pos), size - (view.base + view.pos)))

BlankRecords == [i \in Slots |-> <<>>]

\* The file object SRLIcon.load sees through a view of the stream: the
\* stream's title records lie at stream.iconAt + 0x240; elsewhere the
\* stream holds zero bytes.
ViewFile(strm, view) ==
    [size |-> ViewReadLen(view, view.length, strm.size),
     records |-> IF view.base = strm.iconAt THEN strm.records ELSE BlankRecords]

-----------------------------------------------------------------------------
(* SRLReader, srl.py lines 72-141.                                         *)

NoIcon == IconRaised("unset")

\* Lines 100-107, region_lockout being the int readle returned.
RegionLocks(region_lockout) ==
    IF PyEq(PyInt(region_lockout), PyStr("0x0")) THEN "Normal"
    ELSE IF PyEq(PyInt(region_lockout), PyStr("0x80")) THEN "China"
    ELSE IF PyEq(PyInt(region_lockout), PyStr("0x40")) THEN "Korea"
    ELSE IntToStr(region_lockout)

\* A variant of _load_icon that catches only the two exceptions its comment
\* names and lets every other one propagate.
LoadIconCatchNamedOnly(strm, icon_offset) ==
    LET f == SubsectionIO(icon_offset, SRLICON_SIZE)
        r == SRLIcon_load(ViewFile(strm, f))
        named == {"ExeFSFileNotFoundError", "InvalidSMDHError"}
    IN  IF r.raised = "none"
        THEN [icon |-> r, caught |-> "none", propagated |-> "none"]
        ELSE IF r.raised \in named
        THEN [icon |-> NoIcon, caught |-> r.raised, propagated |-> "none"]
        ELSE [icon |-> NoIcon, caught |-> "none", propagated |-> r.raised]

\* SRLReader._load_icon, lines 112-117: the icon it sets, the exception it
\* caught and the exception it lets propagate.
_load_icon(strm, icon_offset) ==
    LET f == SubsectionIO(icon_offset, SRLICON_SIZE)
        r == SRLIcon_load(ViewFile(strm, f))
    IN  IF r.raised = "none"
        THEN [icon |-> r, caught |-> "none", propagated |-> "none"]
        ELSE [icon |-> NoIcon, caught |-> r.raised, propagated |-> "none"]

\* SRLReader.open, lines 123-141
SRLReader_open(self, table, path, normalize) ==
    LET key == IF normalize THEN _normalize_path(path) ELSE path
    IN  IF key \notin DOMAIN table
        THEN [kind |-> "KeyError", path |-> key]
        ELSE IF table[key].offset = -1
        THEN [kind |-> "reconstruct", path |-> key]
        ELSE [SubsectionIO(self._icon_offset, table[key].size)
              EXCEPT !.kind = "subsection"] @@ [path |-> key]

Threads == {"t1", "t2"}

IconName == <<"i", "c", "o", "n">>
LogoName == <<"l", "o", "g", "o">>
CodeName == <<"c", "o", "d", "e">>

\* self.entries is set by a base class that is not among the sources: a
\* table of two stored entries and one entry to reconstruct.
EntryTables ==
    {(IconName :> [offset |-> 4096, size |-> 512])
        @@ (LogoName :> [offset |-> 16384, size |-> 256])
        @@ (CodeName :> [offset |-> -1, size |-> 768])}

OpenPaths ==
    {IconName, Sep \o IconName \o DotBin, Sep \o LogoName, CodeName,
     <<"b", "a", "n", "n", "e", "r">> \o DotBin}

\* Container files: cut before the unit code, inside the icon-offset field,
\* before the region-lockout byte, inside the second title record, and whole.
StreamSizes == {16, 106, 432, 4096 + TitleSliceStart + TitleRecordSize + 1, 24576}

StreamRecords ==
    {[i \in Slots |-> IF i = 0 THEN <<"A">> ELSE Filler(i)],
     [i \in Slots |-> IF i = 1 THEN <<"A", LoneSurrogate>> ELSE Filler(i)]}

Streams ==
    [size : StreamSizes,
     unitcode : {2, 3},
     lockout : {0, 64, 128, 3},
     iconAt : {4096, 16384},
     records : StreamRecords]

IdleThread == [pc |-> "idle", view |-> [kind |-> "none"], span |-> <<0, 0>>]
NoAccess == [by |-> "none", op |-> "none", holder |-> "free"]
NewReader ==
    [apptitle |-> 0, unitcode |-> 0, regionlocks |-> "", shortDesc |-> "",
     longDesc |-> "", region_lockout |-> 0, _icon_offset |-> 0, icon |-> NoIcon]

ReaderInit ==
    /\ stream \in Streams
    /\ filePos = 0
    /\ entries \in EntryTables
    /\ readerPc = "Unopened"
    /\ reader = NewReader
    /\ lock = "free"
    /\ viewLock = "free"
    /\ iconCaught = "none"
    /\ thr = [t \in Threads |-> IdleThread]
    /\ access = NoAccess

ReaderIdle ==
    /\ stream = [size |-> 0, unitcode |-> 0, lockout |-> 0, iconAt |-> 0,
                 records |-> BlankRecords]
    /\ filePos = 0
    /\ entries = <<>>
    /\ readerPc = "idle"
    /\ reader = NewReader
    /\ lock = "free"
    /\ viewLock = "free"
    /\ iconCaught = "none"
    /\ thr = [t \in Threads |-> IdleThread]
    /\ access = NoAccess

otherVars == <<normVars, decVars, iconVars>>

\* __init__, lines 85-96: the lock is created, the primary header is read
\* and the unit code and the title bytes are taken from it.
ReadHeader ==
    /\ readerPc = "Unopened"
    /\ LET n == Min(384, stream.size)
       IN  /\ filePos' = n
           /\ reader' = [reader EXCEPT
                  !.unitcode = readbe(stream.unitcode, Have(n, 18, 19)),
                  !.apptitle = Have(n, 0, 18),
                  !.regionlocks = "", !.shortDesc = "", !.longDesc = ""]
    /\ access' = [by |-> "init", op |-> "read", holder |-> lock]
    /\ readerPc' = "HeaderParsed"
    /\ UNCHANGED <<stream, entries, lock, viewLock, iconCaught, thr,
                   otherVars>>

\* __init__, lines 97-107: with the unit code's low bit set, the extended
\* header is read and the region lockout is decoded from its offset 0x34.
ReadExtendedHeader ==
    /\ readerPc = "HeaderParsed"
    /\ reader.unitcode % 2 = 1
    /\ LET n == Max(0, Min(3712, stream.size - filePos))
           region_lockout == readle(stream.lockout, 1, Have(n, 52, 53))
       IN  /\ filePos' = filePos + n
           /\ reader' = [reader EXCEPT !.region_lockout = region_lockout,
                                       !.regionlocks = RegionLocks(region_lockout)]
    /\ access' = [by |-> "init", op |-> "read", holder |-> lock]
    /\ readerPc' = "ExtendedHeaderParsed"
    /\ UNCHANGED <<stream, entries, lock, viewLock, iconCaught, thr,
                   otherVars>>

\* __init__, lines 109-110, and _load_icon: the icon offset is decoded from
\* the primary header and the icon block is read through a view and decoded.
LoadIcon ==
    /\ \/ readerPc = "HeaderParsed" /\ reader.unitcode % 2 = 0
       \/ readerPc = "ExtendedHeaderParsed"
    /\ LET header == Min(384, stream.size)
           icon_offset == readle(stream.iconAt, 4, Have(header, 104, 108))
           r == _load_icon(stream, icon_offset)
           f == SubsectionIO(icon_offset, SRLICON_SIZE)
       IN  /\ reader' = [reader EXCEPT !._icon_offset = icon_offset, !.icon = r.icon]
           /\ iconCaught' = r.caught
           /\ filePos' = icon_offset + ViewReadLen(f, SRLICON_SIZE, stream.size)
           /\ readerPc' = IF r.propagated = "none" THEN "IconAttempted" ELSE "Failed"
    \* line 114 hands the view the file, an offset and a size: self._lock is
    \* not taken for the read
    /\ access' = [by |-> "init", op |-> "read", holder |-> lock]
    /\ UNCHANGED <<stream, entries, lock, viewLock, thr, otherVars>>

\* __init__ returns.
FinishInit ==
    /\ readerPc = "IconAttempted"
    /\ readerPc' = "Ready"
    /\ UNCHANGED <<stream, filePos, entries, reader, lock, viewLock,
                   iconCaught, thr, access, otherVars>>

\* A thread calls reader.open(path, normalize=...).
Open(t) ==
    /\ readerPc = "Ready"
    /\ thr[t].pc = "idle"
    /\ \E path \in OpenPaths, normalize \in BOOLEAN :
        LET v == SRLReader_open(reader, entries, path, normalize)
        IN  thr' = [thr EXCEPT ![t] =
                        IF v.kind = "KeyError"
                        THEN IdleThread
                        ELSE [pc |-> "opened", view |-> v, span |-> <<0, 0>>]]
    /\ UNCHANGED <<stream, filePos, entries, readerPc, reader, lock, viewLock,
                   iconCaught, access, otherVars>>

\* view.read(): the view takes the lock of the views, which is not
\* self._lock (line 141 hands the view the file, an offset and a size) ...
ViewAcquire(t) ==
    /\ thr[t].pc = "opened"
    /\ thr[t].view.kind = "subsection"
    /\ viewLock = "free"
    /\ viewLock' = t
    /\ thr' = [thr EXCEPT ![t].pc = "locked"]
    /\ UNCHANGED <<stream, filePos, entries, readerPc, reader, lock,
                   iconCaught, access, otherVars>>

\* ... seeks the parent to baseOffset + position ...
ViewSeek(t) ==
    /\ thr[t].pc = "locked"
    /\ filePos' = thr[t].view.base + thr[t].view.pos
    /\ access' = [by |-> t, op |-> "seek", holder |-> lock]
    /\ thr' = [thr EXCEPT ![t].pc = "seeked"]
    /\ UNCHANGED <<stream, entries, readerPc, reader, lock, viewLock,
                   iconCaught, otherVars>>

\* ... reads from the parent's cursor what is left of the window ...
ViewRead(t) ==
    /\ thr[t].pc = "seeked"
    /\ LET v == thr[t].view
           n == Max(0, Min(v.length - v.pos, stream.size - filePos))
       IN  /\ filePos' = filePos + n
           /\ thr' = [thr EXCEPT ![t].pc = "read",
                                 ![t].span = <<filePos, filePos + n>>,
                                 ![t].view.pos = v.pos + n]
    /\ access' = [by |-> t, op |-> "read", holder |-> lock]
    /\ UNCHANGED <<stream, entries, readerPc, reader, lock, viewLock,
                   iconCaught, otherVars>>

\* ... and gives the lock back.
ViewRelease(t) ==
    /\ thr[t].pc = "read"
    /\ viewLock' = "free"
    /\ thr' = [thr EXCEPT ![t].pc = "opened"]
    /\ UNCHANGED <<stream, filePos, entries, readerPc, reader, lock,
                   iconCaught, access, otherVars>>

\* The thread closes its view; the parent stream stays open.
Close(t) ==
    /\ thr[t].pc = "opened"
    /\ thr' = [thr EXCEPT ![t] = IdleThread]
    /\ UNCHANGED <<stream, filePos, entries, readerPc, reader, lock, viewLock,
                   iconCaught, access, otherVars>>

-----------------------------------------------------------------------------
(* Specifications.                                                         *)

Init == NormIdle /\ DecIdle /\ IconIdle /\ ReaderInit
Construct == ReadHeader \/ ReadExtendedHeader \/ LoadIcon \/ FinishInit
Next ==
    \/ Construct
    \/ \E t \in Threads :
        Open(t) \/ ViewAcquire(t) \/ ViewSeek(t) \/ ViewRead(t) \/ ViewRelease(t)
            \/ Close(t)
Spec == Init /\ [][Next]_vars

InitNorm == NormInit /\ DecIdle /\ IconIdle /\ ReaderIdle
NextNorm == Normalize \/ NormalizeAgain
SpecNorm == InitNorm /\ [][NextNorm]_vars

InitDec == NormIdle /\ DecInit /\ IconIdle /\ ReaderIdle
NextDec == Decompose
SpecDec == InitDec /\ [][NextDec]_vars

InitIcon == NormIdle /\ DecIdle /\ IconInit /\ ReaderIdle
NextIcon == Load \/ GetAppTitle
SpecIcon == InitIcon /\ [][NextIcon]_vars

-----------------------------------------------------------------------------
(* C3: the two spellings "/" + n + ".bin" and n of a name n that has no    *)
(* leading separator and no .bin suffix normalize to the same result, n.   *)
C3_TwoSpellingsAgree ==
    normPc \in {"once", "twice"} =>
        \A k \in 0..Len(normIn) :
            LET n == SliceFrom(normIn, Len(normIn) - k)
            IN  (/\ normIn = Sep \o n \o DotBin
                 /\ ~StartsWith(n, Sep)
                 /\ ~EndsWith(Lower(n), DotBin))
                => (normOut = n /\ _normalize_path(n) = n)

\* C4 as stated: normalization is idempotent for every input string.
C4_IdempotentForEveryPath ==
    normPc = "twice" => normAgain = normOut

\* C4, amended: normalization is idempotent for every input string that
\* does not start with two separators.
C4_IdempotentUnlessDoubleSeparator ==
    (normPc = "twice" /\ ~StartsWith(normIn, Sep \o Sep)) => normAgain = normOut

C4_Witness ==
    /\ normPc = "twice"
    /\ StartsWith(normIn, Sep)
    /\ ~StartsWith(normIn, Sep \o Sep)
    /\ EndsWith(Lower(normIn), DotBin)
    /\ Len(normIn) = MaxPathLen
    /\ normOut # normIn
    /\ normAgain = normOut

\* C9: the OR of the returned members' values, OR-ed with the returned
\* residual, equals the input.
C9_DecomposeReconstructs ==
    decPc = "done" =>
        /\ decResult.raised = "none"
        /\ BitOr(OrAll(Range(decResult.members)), decResult.not_covered) = decValue

\* The lines of the record of region number k (1..12) as SRLIcon.load reads
\* them from iconFile.
RecordLines(k) ==
    LET x == (k - 1) * TitleRecordSize
    IN  SplitLines(StripNul(Decoded(iconFile.records[k - 1],
                                    ChunkLen(Min(SRLICON_SIZE, iconFile.size), x))))

EmptyTitle == AppTitle(<<>>, <<>>, <<>>)
UnknownTitle == AppTitle(Unknown, Unknown, Unknown)

\* The regions of an order whose title is present and not the degraded triple.
NonEmptyAt(order) ==
    {i \in 1..Len(order) : icon.names[order[i]] \notin {None, EmptyTitle}}

\* C5: get_app_title returns the title of the first region of the order
\* whose AppTitle is present and not ("", "", ""), and the "unknown" triple
\* when there is none.
C5_FirstNonEmptyTitle ==
    iconPc = "asked" =>
        IF NonEmptyAt(titleOrder) = {}
        THEN titleResult = UnknownTitle
        ELSE LET i == CHOOSE j \in NonEmptyAt(titleOrder) :
                        \A h \in NonEmptyAt(titleOrder) : j <= h
             IN  titleResult = icon.names[titleOrder[i]]

\* C6: after a full 0x2400-byte block is decoded, each of the twelve regions
\* has the AppTitle of its own record, record i lying at 0x240 + i * 0x100.
C6_TwelveRegionsPopulated ==
    (/\ iconPc = "loaded"
     /\ iconFile.size >= SRLICON_SIZE
     /\ icon.raised = "none")
    => \A k \in 1..Len(region_names) :
        /\ icon.names[region_names[k]] # None
        /\ icon.names[region_names[k]] =
             AppTitleOfLines(SplitLines(StripNul(
                 Decoded(iconFile.records[k - 1], TitleRecordSize))))

\* C10: every record that load decodes gives, by the number of its lines:
\* 3 lines [A, B, C] -> AppTitle(A, A + " " + B, C); 2 lines [A, B] ->
\* AppTitle(A, A, B); any other count -> AppTitle("", "", ""), and load
\* still returns the titles of the other regions.
C10_TitleByLineCount ==
    (iconPc = "loaded" /\ icon.raised = "none")
    => \A k \in 1..Len(region_names) :
        LET got == icon.names[region_names[k]]
            lines == RecordLines(k)
        IN  got # None =>
              /\ Len(lines) = 3 =>
                    /\ got.short_desc = lines[1]
                    /\ got.long_desc = lines[1] \o <<Space>> \o lines[2]
                    /\ got.publisher = lines[3]
              /\ Len(lines) = 2 =>
                    /\ got.short_desc = lines[1]
                    /\ got.long_desc = lines[1]
                    /\ got.publisher = lines[2]
              /\ Len(lines) \notin {2, 3} => got = EmptyTitle

\* A loaded icon whose English record has more than three lines and is
\* degraded, next to a two-line and a three-line record decoded in full.
C10_Witness ==
    /\ iconPc = "loaded"
    /\ icon.raised = "none"
    /\ Len(RecordLines(2)) > 3
    /\ icon.names["English"] = EmptyTitle
    /\ Len(RecordLines(1)) = 2
    /\ icon.names["Japanese"] = AppTitle(<<"A">>, <<"A">>, <<"B">>)
    /\ Len(RecordLines(4)) = 3
    /\ icon.names["German"] = AppTitle(<<"A">>, <<"A", Space, "B">>, <<"A">>)

\* C1: a view that open() returns for an entry whose offset is not -1 has
\* that entry's offset as its base and that entry's size as its length, and
\* what is read through it lies in [entry.offset, entry.offset + entry.size).
C1_ViewCoversEntry ==
    \A t \in Threads :
        thr[t].view.kind = "subsection" =>
            LET v == thr[t].view
                entry == entries[v.path]
            IN  /\ v.base = entry.offset
                /\ v.length = entry.size
                /\ thr[t].span[1] < thr[t].span[2] =>
                      /\ entry.offset <= thr[t].span[1]
                      /\ thr[t].span[2] <= entry.offset + entry.size

\* The label the region-lockout byte stands for.
RegionLabel(raw) ==
    CASE raw = 0 -> "Normal"
      [] raw = 128 -> "China"
      [] raw = 64 -> "Korea"
      [] OTHER -> IntToStr(raw)

\* C2: with the unit code's low bit set, the region-lockout byte 0x00 gives
\* "Normal", 0x80 "China", 0x40 "Korea", and any other value its string form.
C2_RegionLockLabel ==
    (/\ readerPc \in {"ExtendedHeaderParsed", "IconAttempted", "Ready"}
     /\ reader.unitcode % 2 = 1)
    => reader.regionlocks = RegionLabel(reader.region_lockout)

\* C7: construction never fails because of the icon: __init__ only ever is at
\* one of the stages Unopened, HeaderParsed, ExtendedHeaderParsed,
\* IconAttempted, Ready (no exception of the icon step propagates), and when
\* icon decoding raised, the reader is left without an icon.
C7_IconNeverFailsConstruction ==
    /\ readerPc \in {"Unopened", "HeaderParsed", "ExtendedHeaderParsed",
                     "IconAttempted", "Ready"}
    /\ (readerPc \in {"IconAttempted", "Ready"} /\ iconCaught # "none")
        => reader.icon = NoIcon

\* A reader that is Ready after its icon block failed to decode.
C7_Witness ==
    /\ readerPc = "Ready"
    /\ iconCaught = "UnicodeDecodeError"
    /\ reader.icon = NoIcon
    /\ stream.size > reader._icon_offset + TitleSliceStart

\* C8: every read or seek on the underlying stream is done by the holder of
\* the container's lock, and between a view's seek and its read no other
\* operation moves the stream's cursor.
C8_EveryAccessHoldsLock ==
    /\ access.op # "none" => access.holder = access.by
    /\ \A t \in Threads :
        thr[t].pc = "seeked" => filePos = thr[t].view.base + thr[t].view.pos

====
